---- MODULE Spec2Model ----
(***************************************************************************)
(* Model of the face-swap front end: the App component's state             *)
(* (src/App.tsx), its batch pipeline runBatchProcessor, the startup        *)
(* restore and the debounced auto-save, and the preferences store          *)
(* (src/services/storageService.ts).                                       *)
(*                                                                         *)
(* React state is modelled by one variable per useState cell.  A handler   *)
(* closes over the values of the render in which it was created, so every  *)
(* asynchronous handler instance carries the values it captured.           *)
(***************************************************************************)
EXTENDS Naturals, Integers, Sequences, FiniteSets, TLC

\* ---------------------------------------------------------------- bounds
MaxTargets == 3        \* target uploads over the life of the model
MaxRuns == 2           \* runBatchProcessor invocations per page session
MaxReloads == 1        \* page reloads (a new session over the same store)
MaxWrites == 2         \* updatePreferences calls in flight at once
MaxEdits == 1          \* settings edits over the life of the model
MaxSelects == 1        \* source uploads per page session

\* ------------------------------------------------------------ value sets
NoVal == "undefined"                     \* an absent string-valued field
Null == "null"                           \* the null of useState(null)
None == <<>>                             \* an absent record-valued field
Some(v) == <<v>>                         \* a present record-valued field
SourceFiles == {"faceA"}                 \* source identity uploads
TargetFiles == {"photoA"}                \* target uploads
SwapResults == {"swapped"}               \* images the engine can return
SwapErrors == {"No image generated"}     \* failures the engine can raise
Runs == 1..MaxRuns
Selects == 1..MaxSelects

\* DEFAULT_SWAP_SETTINGS, src/constants.ts
DEFAULT_SWAP_SETTINGS ==
  [preserveHair |-> TRUE, matchSkinTone |-> TRUE, matchLighting |-> TRUE,
   faceScaleLock |-> "auto", skinSmoothness |-> 5, outputQuality |-> 90]

VARIABLES
  isStorageLoaded,     \* useState(false)
  sourceFaces,         \* useState<string[]>([])
  targets,             \* useState<ProcessedImage[]>([])
  analysis,            \* useState<FaceAnalysisResult | null>(null)
  isAnalyzing,         \* useState(false)
  analysisCache,       \* the module-level Map: the hashes it has, with results
  srcOps,              \* the handleSourceSelect invocations of this session
  settings,            \* useState(DEFAULT_SWAP_SETTINGS)
  isProcessingBatch,   \* useState(false)
  runs,                \* the runBatchProcessor invocations of this session
  loadOp,              \* the init() effect: "pending" or "done"
  saveTimer,           \* the auto-save effect's pending setTimeout, or None
  writes,              \* updatePreferences calls in flight (FIFO)
  store,               \* the record under KEY in the object store, or None
  nextId,              \* ids handed out so far (Date.now()+Math.random())
  reloads,             \* page reloads so far
  edits,               \* settings edits so far
  hist,                \* history of each run: what it wrote and dispatched
  unhandled,           \* a promise rejection reached the page unhandled
  apiKey,              \* process.env.API_KEY of the build, or NoVal
  db,                  \* updatePreferences calls by stage: open, get, put
  queueApp             \* the queue-driven App variant (processingQueue)

vars == <<isStorageLoaded, sourceFaces, targets, analysis, isAnalyzing,
          analysisCache, srcOps, settings,
          isProcessingBatch, runs, loadOp, saveTimer, writes, store,
          nextId, reloads, edits, hist, unhandled, apiKey, db, queueApp>>

\* ------------------------------------------------------------ ProcessedImage
\* A new target, handleTargetSelect (status 'idle', no processedUrl, no error)
NewTarget(id, url) ==
  [id |-> id, originalUrl |-> url, status |-> "idle",
   processedUrl |-> NoVal, error |-> NoVal]

Ids(ts) == {ts[i].id : i \in 1..Len(ts)}

\* targets.filter(t => t.status === 'idle').map(t => t.id)
RECURSIVE IdleIds(_)
IdleIds(ts) ==
  IF ts = <<>> THEN <<>>
  ELSE IF Head(ts).status = "idle" THEN <<Head(ts).id>> \o IdleIds(Tail(ts))
       ELSE IdleIds(Tail(ts))

\* targets.find(t => t.id === id)?.originalUrl
FindUrl(ts, id) ==
  IF id \in Ids(ts)
    THEN LET i == CHOOSE j \in 1..Len(ts) :
                     ts[j].id = id /\ \A k \in 1..(j-1) : ts[k].id # id
         IN ts[i].originalUrl
    ELSE NoVal

\* MarkProcessing left out: the loop goes to the engine call at once
MarkProcessingSkipped(ts, id) == ts

\* MarkProcessing that adds the item when it is not in the collection
MarkProcessingAppending(ts, id) ==
  IF id \in {ts[i].id : i \in 1..Len(ts)}
    THEN [i \in 1..Len(ts) |->
            IF ts[i].id = id THEN [ts[i] EXCEPT !.status = "processing"]
            ELSE ts[i]]
    ELSE Append(ts, [id |-> id, originalUrl |-> "photoA",
                     status |-> "processing", processedUrl |-> NoVal,
                     error |-> NoVal])

\* prev.map(t => t.id === id ? { ...t, status: 'processing' } : t)
MarkProcessing(ts, id) ==
  [i \in 1..Len(ts) |->
     IF ts[i].id = id THEN [ts[i] EXCEPT !.status = "processing"] ELSE ts[i]]

\* MarkCompleted without the status: only the image is stored
MarkCompletedNoStatus(ts, id, img) ==
  [i \in 1..Len(ts) |->
     IF ts[i].id = id THEN [ts[i] EXCEPT !.processedUrl = img] ELSE ts[i]]

\* prev.map(t => t.id === id ? { ...t, status: 'completed', processedUrl } : t)
MarkCompleted(ts, id, img) ==
  [i \in 1..Len(ts) |->
     IF ts[i].id = id
       THEN [ts[i] EXCEPT !.status = "completed", !.processedUrl = img]
       ELSE ts[i]]

\* MarkFailed without the test on the id: every item is failed
MarkFailedAll(ts, id, msg) ==
  [i \in 1..Len(ts) |->
     [ts[i] EXCEPT !.status = "failed", !.error = msg]]

\* prev.map(t => t.id === id ? { ...t, status: 'failed', error } : t)
MarkFailed(ts, id, msg) ==
  [i \in 1..Len(ts) |->
     IF ts[i].id = id
       THEN [ts[i] EXCEPT !.status = "failed", !.error = msg]
       ELSE ts[i]]

\* prev.filter(p => p.id !== target.id)
RECURSIVE RemoveId(_, _)
RemoveId(ts, id) ==
  IF ts = <<>> THEN <<>>
  ELSE IF Head(ts).id = id THEN RemoveId(Tail(ts), id)
       ELSE <<Head(ts)>> \o RemoveId(Tail(ts), id)

\* ------------------------------------------------------------ React state
\* v || d for a string-valued v: s.analysis || null, analysis || undefined
OrElse(v, d) == IF v = NoVal \/ v = Null THEN d ELSE v

\* AutoSave without `if (!isStorageLoaded) return`
AutoSaveUnguarded(loaded, ts, sf, an) ==
  Some([targets |-> ts, sourceFaces |-> sf, analysis |-> OrElse(an, NoVal)])

\* AutoSave without `|| undefined`: the snapshot holds analysis as it is
AutoSaveRaw(loaded, ts, sf, an) ==
  IF ~loaded THEN None
  ELSE Some([targets |-> ts, sourceFaces |-> sf, analysis |-> an])

\* AutoSave whose timer keeps the snapshot of the render before the mutation
AutoSaveStale(loaded, ts, sf, an) ==
  IF ~loaded THEN None
  ELSE Some([targets |-> targets, sourceFaces |-> sourceFaces,
             analysis |-> OrElse(analysis, NoVal)])

\* The auto-save effect, App.tsx 71-79, as it stands after a render in which
\* one of its dependencies changed: the previous timer is cleared, and a new
\* one is set only when isStorageLoaded; the timer's callback closes over the
\* values of that render (analysis || undefined).
AutoSave(loaded, ts, sf, an) ==
  IF ~loaded THEN None
  ELSE Some([targets |-> ts, sourceFaces |-> sf,
             analysis |-> OrElse(an, NoVal)])

\* ------------------------------------------------------------ storageService
\* MergePrefs as a blind overwrite: the record put is the partial
MergePrefsOverwrite(current, partial) == partial

\* { ...current, ...partialPrefs } over the two keys of UserPreferences;
\* a key that a record does not have is None.
MergePrefs(current, partial) ==
  [k \in {"last_used_source", "session_state"} |->
     IF partial[k] # None THEN partial[k] ELSE current[k]]

EmptyPrefs == [last_used_source |-> None, session_state |-> None]

\* (getReq.result as UserPreferences) || {}
StoredOrEmpty(rec) == IF rec = None THEN EmptyPrefs ELSE rec[1]

\* ------------------------------------------------------------ engine client
\* getClient: `if (!apiKey) throw new Error("API Key not found")`
CredentialError == "API Key not found"

\* performFaceSwap that builds its client whatever the key is
EngineAnswersUnchecked(key) ==
  {[ok |-> TRUE, requested |-> TRUE, value |-> img] : img \in SwapResults}
    \cup {[ok |-> FALSE, requested |-> TRUE, value |-> msg] : msg \in SwapErrors}

\* What one performFaceSwap call can come to.  Its first statement is
\* getClient(), which throws when the key is missing, before generateContent
\* is reached; with a key the request is issued and either an image comes
\* back or the call throws.
EngineAnswers(key) ==
  IF key = NoVal
    THEN {[ok |-> FALSE, requested |-> FALSE, value |-> CredentialError]}
    ELSE {[ok |-> TRUE, requested |-> TRUE, value |-> img] : img \in SwapResults}
           \cup {[ok |-> FALSE, requested |-> TRUE, value |-> msg] :
                   msg \in SwapErrors}

\* ------------------------------------------------------------ call stages
MaxDbCalls == 2

\* the updatePreferences calls followed stage by stage
DbCalls == 1..MaxDbCalls

\* a call: its stage, its argument, the record its get request returned, and
\* the calls that were in flight when it was made
FreeDbCall ==
  [pc |-> "free", partial |-> EmptyPrefs, current |-> EmptyPrefs, seen |-> {}]

\* no call is followed; txOrder lists the calls whose transaction was
\* created and has not completed, in the order of creation
IdleDb == [calls |-> [c \in DbCalls |-> FreeDbCall], txOrder |-> <<>>]

\* ------------------------------------------------------------ queue variant
MaxQueued == 2
MaxDispatch == 2

\* the targets of the queue-driven variant
QueueIds == 1..MaxQueued

\* The queue-driven variant with a source face and its targets added, before
\* a batch is started: the targets idle, processingQueue empty, the effect
\* run, no engine call made or in flight.  present: the ids in targets;
\* effectPending: a render changed a dependency of the processQueue effect;
\* inflight, dispatched: the performFaceSwap calls pending and made, by id;
\* queued: the ids startBatchProcessing has placed in processingQueue.
IdleQueueApp ==
  [status |-> [id \in QueueIds |-> "idle"],
   present |-> QueueIds,
   processingQueue |-> <<>>,
   effectPending |-> FALSE,
   inflight |-> [id \in QueueIds |-> 0],
   dispatched |-> [id \in QueueIds |-> 0],
   queued |-> {}]

\* ------------------------------------------------------------ batch pipeline
FreeRun ==
  [pc |-> "free", ids |-> <<>>, idx |-> 0, targets |-> <<>>,
   sourceFaces |-> <<>>, settings |-> DEFAULT_SWAP_SETTINGS, call |-> None]

\* What is remembered of an invocation: the worklist it computed, the ids
\* that were idle and the settings in effect when it was entered, the first
\* id handed out after that, whether another invocation was active at some
\* time during it, whether it returned at once, and what it wrote and called.
NoHist ==
  [ids |-> <<>>, idle |-> {}, firstNewId |-> 0,
   settings |-> DEFAULT_SWAP_SETTINGS, overlap |-> FALSE, early |-> FALSE,
   log |-> <<>>]

\* SwapArgs with the settings of the latest render
SwapArgsLive(run, url, liveSettings) ==
  [sourceFaces |-> run.sourceFaces, targetUrl |-> url,
   settings |-> liveSettings]

\* The arguments of performFaceSwap(sourceFaces, targetUrl, settings),
\* App.tsx 163: sourceFaces and settings are the ones the handler closed over.
SwapArgs(run, url, liveSettings) ==
  [sourceFaces |-> run.sourceFaces, targetUrl |-> url,
   settings |-> run.settings]

\* TargetUrlFor looking the item up in the state the updaters see
TargetUrlLive(run, live, id) == FindUrl(live, id)

\* targets.find(t => t.id === id)?.originalUrl, App.tsx 159: targets is the
\* array the handler closed over, not the state the updaters see.
TargetUrlFor(run, live, id) == FindUrl(run.targets, id)

\* The for loop of runBatchProcessor from worklist position i up to its next
\* await: each item is marked 'processing'; an item without a url is skipped
\* by `continue` (no pause); the first item with a url is handed to the
\* engine.  Past the end of the worklist the loop exits.
RECURSIVE LoopFrom(_, _, _, _)
LoopFrom(ts, run, i, log) ==
  IF i > Len(run.ids)
    THEN [targets |-> ts, pc |-> "done", idx |-> i, call |-> None,
          log |-> log]
    ELSE LET id == run.ids[i]
             ts2 == MarkProcessing(ts, id)
             url == TargetUrlFor(run, ts, id)
             log2 == Append(log, [ev |-> "processing", id |-> id])
         IN IF url = NoVal
              THEN LoopFrom(ts2, run, i + 1, log2)
              ELSE [targets |-> ts2, pc |-> "call", idx |-> i,
                    call |-> Some(SwapArgs(run, url, settings)),
                    log |-> Append(log2, [ev |-> "call", id |-> id])]

\* Runs whose handler has been entered and has not returned
Active(rs) == {r \in Runs : rs[r].pc \in {"call", "pause"}}

\* The state of run r and of the App after the loop advanced to `step`
RunAfter(run, step) ==
  IF step.pc = "done"
    THEN [FreeRun EXCEPT !.pc = "done"]
    ELSE [run EXCEPT !.pc = step.pc, !.idx = step.idx, !.call = step.call]

\* ------------------------------------------------------------ source identity
\* what analyzeFace returns for an image
AnalysisOf(img) ==
  IF img = "faceA" THEN "analysisA"
  ELSE IF img = "faceB" THEN "analysisB"
  ELSE IF img = "faceC" THEN "analysisC"
  ELSE "analysisD"

\* an invocation of handleSourceSelect: where it stands, the file it was
\* given, the length of the sourceFaces it closed over, and whether it has
\* called analyzeFace
FreeOp == [pc |-> "free", file |-> NoVal, seenLen |-> 0, called |-> FALSE]

\* AddFace without the test on the length
AddFaceNoLimit(prev, img) ==
  IF \E i \in 1..Len(prev) : prev[i] = img THEN prev
  ELSE Append(prev, img)

\* setSourceFaces updater, App.tsx 89-95
AddFace(prev, img) ==
  IF \E i \in 1..Len(prev) : prev[i] = img THEN prev
  ELSE IF Len(prev) >= 3 THEN prev
  ELSE Append(prev, img)

\* ------------------------------------------------------------ initial state
\* The record a fresh profile has (none), and the bookmark an earlier build
\* of the App (saveSourceFaceToStorage) left behind.
InitialStores ==
  { None,
    Some([last_used_source |->
            Some([image |-> "faceA", images |-> None,
                  analysis |-> AnalysisOf("faceA")]),
          session_state |-> None]) }

\* The state of a freshly mounted App over the store st
Mounted(st, ids, rl, ed) ==
  /\ isStorageLoaded = FALSE
  /\ sourceFaces = <<>>
  /\ targets = <<>>
  /\ analysis = Null
  /\ isAnalyzing = FALSE
  /\ analysisCache = [f \in SourceFiles |-> NoVal]
  /\ srcOps = [o \in Selects |-> FreeOp]
  /\ settings = DEFAULT_SWAP_SETTINGS
  /\ isProcessingBatch = FALSE
  /\ runs = [r \in Runs |-> FreeRun]
  /\ loadOp = "pending"
  /\ saveTimer = None
  /\ writes = <<>>
  /\ store = st
  /\ nextId = ids
  /\ reloads = rl
  /\ edits = ed
  /\ hist = [r \in Runs |-> NoHist]
  /\ unhandled = FALSE
  /\ apiKey = "key"
  /\ db = IdleDb
  /\ queueApp = IdleQueueApp

Init == \E st \in InitialStores : Mounted(st, 0, 0, 0)

\* ------------------------------------------------------------ user: targets
\* reader.onload of handleTargetSelect, App.tsx 131-141
handleTargetSelect(file) ==
  /\ nextId < MaxTargets
  /\ nextId' = nextId + 1
  /\ targets' = Append(targets, NewTarget(nextId + 1, file))
  /\ saveTimer' = AutoSave(isStorageLoaded, targets', sourceFaces, analysis)
  /\ UNCHANGED <<isStorageLoaded, sourceFaces, analysis, isAnalyzing,
                 analysisCache, srcOps, settings, isProcessingBatch, runs,
                 loadOp, writes, store, reloads, edits, hist, unhandled,
                 apiKey, db, queueApp>>

\* the remove button of a target card, App.tsx 334
removeTarget(id) ==
  /\ id \in Ids(targets)
  /\ targets' = RemoveId(targets, id)
  /\ saveTimer' = AutoSave(isStorageLoaded, targets', sourceFaces, analysis)
  /\ UNCHANGED <<isStorageLoaded, sourceFaces, analysis, isAnalyzing,
                 analysisCache, srcOps, settings, isProcessingBatch, runs,
                 loadOp, writes, store, nextId, reloads, edits, hist,
                 unhandled,
                 apiKey, db, queueApp>>

\* a settings control, App.tsx 229-253
editSettings ==
  /\ edits < MaxEdits
  /\ edits' = edits + 1
  /\ settings' = [settings EXCEPT !.preserveHair = ~@]
  /\ UNCHANGED <<isStorageLoaded, sourceFaces, targets, analysis, isAnalyzing,
                 analysisCache, srcOps, isProcessingBatch, runs, loadOp,
                 saveTimer, writes, store, nextId, reloads, hist, unhandled,
                 apiKey, db, queueApp>>

\* ------------------------------------------------------------ user: sources
\* handleSourceSelect is entered: it closes over sourceFaces and awaits the
\* hash and the FileReader, App.tsx 81-84, 119
handleSourceSelect(o, file) ==
  /\ srcOps[o].pc = "free"
  /\ \A p \in DOMAIN srcOps : p < o => srcOps[p].pc # "free"
  /\ srcOps' = [srcOps EXCEPT ![o] =
                  [pc |-> "reading", file |-> file,
                   seenLen |-> Len(sourceFaces), called |-> FALSE]]
  /\ UNCHANGED <<isStorageLoaded, sourceFaces, targets, analysis, isAnalyzing,
                 analysisCache, settings, isProcessingBatch, runs, loadOp,
                 saveTimer, writes, store, nextId, reloads, edits, hist,
                 unhandled,
                 apiKey, db, queueApp>>

\* reader.onload up to its await, App.tsx 85-109
sourceLoaded(o) ==
  /\ srcOps[o].pc = "reading"
  /\ LET img == srcOps[o].file
         primary == srcOps[o].seenLen = 0
         cached == analysisCache[img]
     IN /\ sourceFaces' = AddFace(sourceFaces, img)
        /\ analysis' = IF ~primary THEN analysis
                       ELSE IF cached # NoVal THEN cached ELSE Null
        /\ isAnalyzing' = IF primary /\ cached = NoVal THEN TRUE
                          ELSE isAnalyzing
        /\ srcOps' = [srcOps EXCEPT ![o].pc =
                        IF primary /\ cached = NoVal THEN "analyzing"
                        ELSE "done",
                                    ![o].called = primary /\ cached = NoVal]
  /\ saveTimer' = IF sourceFaces' # sourceFaces \/ analysis' # analysis
                    THEN AutoSave(isStorageLoaded, targets, sourceFaces',
                                  analysis')
                    ELSE saveTimer
  /\ UNCHANGED <<isStorageLoaded, targets, analysisCache, settings,
                 isProcessingBatch, runs, loadOp, writes, store, nextId,
                 reloads, edits, hist, unhandled,
                 apiKey, db, queueApp>>

\* analyzeFace resolved, App.tsx 109-111, 115
analyzeOk(o) ==
  /\ srcOps[o].pc = "analyzing"
  /\ apiKey # NoVal
  /\ LET img == srcOps[o].file
     IN /\ analysisCache' = [analysisCache EXCEPT ![img] = AnalysisOf(img)]
        /\ analysis' = AnalysisOf(img)
  /\ isAnalyzing' = FALSE
  /\ srcOps' = [srcOps EXCEPT ![o].pc = "done"]
  /\ saveTimer' = IF analysis' # analysis
                    THEN AutoSave(isStorageLoaded, targets, sourceFaces,
                                  analysis')
                    ELSE saveTimer
  /\ UNCHANGED <<isStorageLoaded, sourceFaces, targets, settings,
                 isProcessingBatch, runs, loadOp, writes, store, nextId,
                 reloads, edits, hist, unhandled,
                 apiKey, db, queueApp>>

\* analyzeFail without `finally { setIsAnalyzing(false) }`
analyzeFailSpinning(o) ==
  /\ srcOps[o].pc = "analyzing"
  /\ srcOps' = [srcOps EXCEPT ![o].pc = "failed"]
  /\ UNCHANGED <<isStorageLoaded, sourceFaces, targets, analysis, isAnalyzing,
                 analysisCache, settings, isProcessingBatch, runs, loadOp,
                 saveTimer, writes, store, nextId, reloads, edits, hist,
                 unhandled,
                 apiKey, db, queueApp>>

\* analyzeFace rejected, App.tsx 112-115
analyzeFail(o) ==
  /\ srcOps[o].pc = "analyzing"
  /\ isAnalyzing' = FALSE
  /\ srcOps' = [srcOps EXCEPT ![o].pc = "failed"]
  /\ UNCHANGED <<isStorageLoaded, sourceFaces, targets, analysis,
                 analysisCache, settings, isProcessingBatch, runs, loadOp,
                 saveTimer, writes, store, nextId, reloads, edits, hist,
                 unhandled,
                 apiKey, db, queueApp>>

\* SpliceOut that always drops the first image
SpliceOutFirst(prev, index) ==
  IF prev = <<>> THEN prev ELSE Tail(prev)

\* newFaces.splice(index, 1), App.tsx 123-127 (index counts from 0)
SpliceOut(prev, index) ==
  [i \in 1..(Len(prev) - (IF index < Len(prev) THEN 1 ELSE 0)) |->
     IF i <= index THEN prev[i] ELSE prev[i + 1]]

\* removeSourceImage(index), App.tsx 122-129
removeSourceImage(index) ==
  /\ sourceFaces' = SpliceOut(sourceFaces, index)
  /\ analysis' = IF index = 0 THEN Null ELSE analysis
  /\ saveTimer' = AutoSave(isStorageLoaded, targets, sourceFaces', analysis')
  /\ UNCHANGED <<isStorageLoaded, targets, isAnalyzing, analysisCache, srcOps,
                 settings, isProcessingBatch, runs, loadOp, writes, store,
                 nextId, reloads, edits, hist, unhandled,
                 apiKey, db, queueApp>>

\* the remove button of a thumbnail: the uploader shows it for the
\* thumbnails after the first, part_001 71-79
clickRemoveSingle(index) ==
  /\ index > 0 /\ index < Len(sourceFaces)
  /\ removeSourceImage(index)

\* onClear, App.tsx 220; the uploader offers it while it shows images
clearAll ==
  /\ Len(sourceFaces) > 0
  /\ sourceFaces' = <<>>
  /\ analysis' = Null
  /\ saveTimer' = AutoSave(isStorageLoaded, targets, sourceFaces', analysis')
  /\ UNCHANGED <<isStorageLoaded, targets, isAnalyzing, analysisCache, srcOps,
                 settings, isProcessingBatch, runs, loadOp, writes, store,
                 nextId, reloads, edits, hist, unhandled,
                 apiKey, db, queueApp>>

\* ------------------------------------------------------------ runBatchProcessor
\* disabled= of the Run Batch button, App.tsx 293
RunBatchDisabled == Len(sourceFaces) = 0 \/ Len(IdleIds(targets)) = 0

\* The Button component: whether a click is refused, given the disabled and
\* isLoading props it was rendered with.  Triggers of runBatch are not
\* mutually excluded: only disabled refuses the click.
ButtonRefuses(disabled, isLoading) == disabled

\* NoSource without the test
NoSourceNever(sf) == FALSE

\* if (sourceFaces.length === 0) return, App.tsx 145
NoSource(sf) == Len(sf) = 0

\* the lowest unused invocation slot
IsNextRun(r) ==
  /\ runs[r].pc = "free"
  /\ \A q \in Runs : q < r => runs[q].pc # "free"

\* hist after run r was entered while the runs in `others` were active
Entered(r, run, others, early) ==
  [q \in Runs |->
     IF q = r
       THEN [ids |-> run.ids,
             idle |-> {targets[i].id : i \in
                         {j \in 1..Len(targets) : targets[j].status = "idle"}},
             firstNewId |-> nextId + 1,
             settings |-> settings, overlap |-> others # {},
             early |-> early, log |-> <<>>]
     ELSE IF q \in others /\ ~early THEN [hist[q] EXCEPT !.overlap = TRUE]
     ELSE hist[q]]

\* runBatchProcessor from its entry to its first await, App.tsx 144-163
runBatchProcessor(r) ==
  /\ IsNextRun(r)
  /\ IF NoSource(sourceFaces)
       THEN /\ runs' = [runs EXCEPT ![r] = [FreeRun EXCEPT !.pc = "done"]]
            /\ hist' = Entered(r, FreeRun, Active(runs), TRUE)
            /\ UNCHANGED <<targets, isProcessingBatch, saveTimer>>
       ELSE LET run == [FreeRun EXCEPT !.ids = IdleIds(targets),
                                       !.targets = targets,
                                       !.sourceFaces = sourceFaces,
                                       !.settings = settings]
                step == LoopFrom(targets, run, 1, <<>>)
            IN /\ targets' = step.targets
               /\ runs' = [runs EXCEPT ![r] = RunAfter(run, step)]
               /\ isProcessingBatch' = (step.pc # "done")
               /\ hist' = [Entered(r, run, Active(runs), FALSE)
                             EXCEPT ![r].log = step.log]
               /\ saveTimer' = IF step.log # <<>>
                                 THEN AutoSave(isStorageLoaded, targets',
                                               sourceFaces, analysis)
                                 ELSE saveTimer
  /\ UNCHANGED <<isStorageLoaded, sourceFaces, analysis, isAnalyzing,
                 analysisCache, srcOps, settings, loadOp, writes, store,
                 nextId, reloads, edits, unhandled,
                 apiKey, db, queueApp>>

\* a click on Run Batch, App.tsx 292-298
clickRunBatch(r) ==
  /\ ~ButtonRefuses(RunBatchDisabled, isProcessingBatch)
  /\ runBatchProcessor(r)

\* performFaceSwap resolved: the 'completed' write, App.tsx 163-167
swapOk(r, img) ==
  /\ runs[r].pc = "call"
  /\ [ok |-> TRUE, requested |-> TRUE, value |-> img] \in EngineAnswers(apiKey)
  /\ LET id == runs[r].ids[runs[r].idx]
     IN /\ targets' = MarkCompleted(targets, id, img)
        /\ hist' = [hist EXCEPT ![r].log =
                      Append(@, [ev |-> "completed", id |-> id])]
  /\ runs' = [runs EXCEPT ![r].pc = "pause", ![r].call = None]
  /\ saveTimer' = AutoSave(isStorageLoaded, targets', sourceFaces, analysis)
  /\ UNCHANGED <<isStorageLoaded, sourceFaces, analysis, isAnalyzing,
                 analysisCache, srcOps, settings, isProcessingBatch, loadOp,
                 writes, store, nextId, reloads, edits, unhandled,
                 apiKey, db, queueApp>>

\* performFaceSwap rejected: the 'failed' write, App.tsx 169-173
swapFail(r, msg) ==
  /\ runs[r].pc = "call"
  /\ \E a \in EngineAnswers(apiKey) : ~a.ok /\ a.value = msg
  /\ LET id == runs[r].ids[runs[r].idx]
     IN /\ targets' = MarkFailed(targets, id, msg)
        /\ hist' = [hist EXCEPT ![r].log =
                      Append(@, [ev |-> "failed", id |-> id])]
  /\ runs' = [runs EXCEPT ![r].pc = "pause", ![r].call = None]
  /\ saveTimer' = AutoSave(isStorageLoaded, targets', sourceFaces, analysis)
  /\ UNCHANGED <<isStorageLoaded, sourceFaces, analysis, isAnalyzing,
                 analysisCache, srcOps, settings, isProcessingBatch, loadOp,
                 writes, store, nextId, reloads, edits, unhandled,
                 apiKey, db, queueApp>>

\* the 200 ms pause is over: the next iteration, or the end of the handler,
\* App.tsx 176-179 and 151-163
pauseOver(r) ==
  /\ runs[r].pc = "pause"
  /\ LET step == LoopFrom(targets, runs[r], runs[r].idx + 1, hist[r].log)
     IN /\ targets' = step.targets
        /\ runs' = [runs EXCEPT ![r] = RunAfter(runs[r], step)]
        /\ isProcessingBatch' = IF step.pc = "done" THEN FALSE
                                ELSE isProcessingBatch
        /\ hist' = [hist EXCEPT ![r].log = step.log]
        /\ saveTimer' = IF step.log # hist[r].log
                          THEN AutoSave(isStorageLoaded, targets',
                                        sourceFaces, analysis)
                          ELSE saveTimer
  /\ UNCHANGED <<isStorageLoaded, sourceFaces, analysis, isAnalyzing,
                 analysisCache, srcOps, settings, loadOp, writes, store,
                 nextId, reloads, edits, unhandled,
                 apiKey, db, queueApp>>

\* ------------------------------------------------------------ persistence
\* Restored with the two branches swapped: the bookmark is preferred
RestoredBookmarkFirst(prefs) ==
  LET keep == [targets |-> targets, sourceFaces |-> sourceFaces,
               analysis |-> analysis]
  IN IF prefs = None THEN keep
     ELSE IF prefs[1].last_used_source # None
       THEN LET lastSource == prefs[1].last_used_source[1]
            IN [targets |-> targets,
                sourceFaces |->
                  IF lastSource.images # None THEN lastSource.images[1]
                  ELSE IF lastSource.image # NoVal THEN <<lastSource.image>>
                  ELSE sourceFaces,
                analysis |-> lastSource.analysis]
     ELSE IF prefs[1].session_state # None
       THEN LET ss == prefs[1].session_state[1]
            IN [targets |-> ss.targets,
                sourceFaces |-> ss.sourceFaces,
                analysis |-> OrElse(ss.analysis, Null)]
     ELSE keep

\* what init() applies from the loaded record, App.tsx 40-58
Restored(prefs) ==
  LET keep == [targets |-> targets, sourceFaces |-> sourceFaces,
               analysis |-> analysis]
  IN IF prefs = None THEN keep
     ELSE IF prefs[1].session_state # None
       THEN LET ss == prefs[1].session_state[1]
            IN [targets |-> ss.targets,
                sourceFaces |-> ss.sourceFaces,
                analysis |-> OrElse(ss.analysis, Null)]
     ELSE IF prefs[1].last_used_source # None
       THEN LET lastSource == prefs[1].last_used_source[1]
            IN [targets |-> targets,
                sourceFaces |->
                  IF lastSource.images # None THEN lastSource.images[1]
                  ELSE IF lastSource.image # NoVal THEN <<lastSource.image>>
                  ELSE sourceFaces,
                analysis |-> lastSource.analysis]
     ELSE keep

\* init(): loadPreferences resolved with the stored record (or null), the
\* record is applied and isStorageLoaded is raised, App.tsx 36-68
loadOk ==
  /\ loadOp = "pending"
  /\ loadOp' = "done"
  /\ LET s == Restored(store)
     IN /\ targets' = s.targets
        /\ sourceFaces' = s.sourceFaces
        /\ analysis' = s.analysis
  /\ isStorageLoaded' = TRUE
  /\ saveTimer' = AutoSave(isStorageLoaded', targets', sourceFaces', analysis')
  /\ UNCHANGED <<isAnalyzing, analysisCache, srcOps, settings,
                 isProcessingBatch, runs, writes, store, nextId, reloads,
                 edits, hist, unhandled,
                 apiKey, db, queueApp>>

\* init(): the load failed (openDB rejected: loadPreferences returns null;
\* the get request failed: init's catch), App.tsx 60-65, storageService 59-65
loadFail ==
  /\ loadOp = "pending"
  /\ loadOp' = "done"
  /\ isStorageLoaded' = TRUE
  /\ saveTimer' = AutoSave(isStorageLoaded', targets, sourceFaces, analysis)
  /\ UNCHANGED <<sourceFaces, targets, analysis, isAnalyzing, analysisCache,
                 srcOps, settings, isProcessingBatch, runs, writes, store,
                 nextId, reloads, edits, hist, unhandled,
                 apiKey, db, queueApp>>

\* the auto-save timer fires: updatePreferences({session_state}) is issued,
\* App.tsx 73-77
timerFires ==
  /\ saveTimer # None
  /\ Len(writes) < MaxWrites
  /\ writes' = Append(writes, [last_used_source |-> None,
                               session_state |-> saveTimer])
  /\ saveTimer' = None
  /\ UNCHANGED <<isStorageLoaded, sourceFaces, targets, analysis, isAnalyzing,
                 analysisCache, srcOps, settings, isProcessingBatch, runs,
                 loadOp, store, nextId, reloads, edits, hist, unhandled,
                 apiKey, db, queueApp>>

\* writeCommit with the transactions run newest first
writeCommitNewestFirst ==
  /\ writes # <<>>
  /\ store' = Some(MergePrefs(StoredOrEmpty(store), writes[Len(writes)]))
  /\ writes' = SubSeq(writes, 1, Len(writes) - 1)
  /\ UNCHANGED <<isStorageLoaded, sourceFaces, targets, analysis, isAnalyzing,
                 analysisCache, srcOps, settings, isProcessingBatch, runs,
                 loadOp, saveTimer, nextId, reloads, edits, hist, unhandled,
                 apiKey, db, queueApp>>

\* updatePreferences: the readwrite transaction gets, merges and puts,
\* storageService.ts 25-41
writeCommit ==
  /\ writes # <<>>
  /\ store' = Some(MergePrefs(StoredOrEmpty(store), Head(writes)))
  /\ writes' = Tail(writes)
  /\ UNCHANGED <<isStorageLoaded, sourceFaces, targets, analysis, isAnalyzing,
                 analysisCache, srcOps, settings, isProcessingBatch, runs,
                 loadOp, saveTimer, nextId, reloads, edits, hist, unhandled,
                 apiKey, db, queueApp>>

\* updatePreferences: openDB or a request failed; the error is logged and
\* thrown again, storageService.ts 40-48, and the caller (the timer callback
\* of the auto-save, App.tsx 74-76) has dropped the promise: the rejection
\* is handled nowhere.
writeFail ==
  /\ writes # <<>>
  /\ writes' = Tail(writes)
  /\ unhandled' = TRUE
  /\ UNCHANGED <<isStorageLoaded, sourceFaces, targets, analysis, isAnalyzing,
                 analysisCache, srcOps, settings, isProcessingBatch, runs,
                 loadOp, saveTimer, store, nextId, reloads, edits, hist,
                 apiKey, db, queueApp>>

\* the page is closed and opened again: a new App over the same store
reload ==
  /\ reloads < MaxReloads
  /\ reloads' = reloads + 1
  /\ isStorageLoaded' = FALSE
  /\ sourceFaces' = <<>>
  /\ targets' = <<>>
  /\ analysis' = Null
  /\ isAnalyzing' = FALSE
  /\ analysisCache' = [f \in SourceFiles |-> NoVal]
  /\ srcOps' = [o \in Selects |-> FreeOp]
  /\ settings' = DEFAULT_SWAP_SETTINGS
  /\ isProcessingBatch' = FALSE
  /\ runs' = [r \in Runs |-> FreeRun]
  /\ loadOp' = "pending"
  /\ saveTimer' = None
  /\ writes' = <<>>
  /\ hist' = [r \in Runs |-> NoHist]
  /\ unhandled' = FALSE
  /\ UNCHANGED <<store, nextId, edits, apiKey, db, queueApp>>

\* ------------------------------------------------------------ specification
\* The batch pipeline and the engine's answers
BatchNext ==
  \/ \E r \in Runs : clickRunBatch(r)
  \/ \E r \in Runs, img \in SwapResults : swapOk(r, img)
  \/ \E r \in Runs, msg \in SwapErrors : swapFail(r, msg)
  \/ \E r \in Runs : pauseOver(r)

\* The startup restore
LoadNext ==
  \/ loadOk
  \/ loadFail

\* The App once startup has finished on an empty store and the user has
\* uploaded one source face whose analysis has returned.
Ready ==
  /\ isStorageLoaded = TRUE
  /\ sourceFaces = <<"faceA">>
  /\ targets = <<>>
  /\ analysis = AnalysisOf("faceA")
  /\ isAnalyzing = FALSE
  /\ analysisCache = [f \in SourceFiles |->
                        IF f = "faceA" THEN AnalysisOf(f) ELSE NoVal]
  /\ srcOps = [o \in Selects |->
                 IF o = 1 THEN [pc |-> "done", file |-> "faceA", seenLen |-> 0,
                                called |-> TRUE]
                 ELSE FreeOp]
  /\ settings = DEFAULT_SWAP_SETTINGS
  /\ isProcessingBatch = FALSE
  /\ runs = [r \in Runs |-> FreeRun]
  /\ loadOp = "done"
  /\ saveTimer = AutoSave(TRUE, targets, sourceFaces, analysis)
  /\ writes = <<>>
  /\ store = None
  /\ nextId = 0
  /\ reloads = 0
  /\ edits = 0
  /\ hist = [r \in Runs |-> NoHist]
  /\ unhandled = FALSE
  /\ apiKey = "key"
  /\ db = IdleDb
  /\ queueApp = IdleQueueApp

\* The targets and the batch pipeline of a started App.  The store is only
\* written by the auto-save, which reads none of it back, and the pipeline
\* reads the sources and the settings only through what a click captures, so
\* the targets and the runs do not depend on the actions left out here.
NextBatch ==
  \/ \E f \in TargetFiles : handleTargetSelect(f)
  \/ \E id \in 0..MaxTargets : removeTarget(id)
  \/ BatchNext

SpecBatch == Ready /\ [][NextBatch]_vars

\* ... with the settings controls
NextSettings ==
  \/ NextBatch
  \/ editSettings

SpecSettings == Ready /\ [][NextSettings]_vars

\* ... with the source identity cleared by the user, and runBatchProcessor
\* called as a function, whatever the button shows
NextCall ==
  \/ NextBatch
  \/ clearAll
  \/ \E r \in Runs : runBatchProcessor(r)

SpecCall == Ready /\ [][NextCall]_vars

\* The auto-save and the store's side of updatePreferences
SaveNext ==
  \/ timerFires
  \/ writeCommit
  \/ writeFail

\* A page session from the mount of the App: the startup restore racing
\* with the user's uploads and removals, and the auto-save.  (The pipeline
\* writes targets through the same setTargets and the same effect as the
\* user's actions do.)
NextStartup ==
  \/ \E f \in TargetFiles : handleTargetSelect(f)
  \/ \E id \in 0..MaxTargets : removeTarget(id)
  \/ \E o \in Selects, f \in SourceFiles : handleSourceSelect(o, f)
  \/ \E o \in Selects : sourceLoaded(o)
  \/ \E o \in Selects : analyzeOk(o)
  \/ \E o \in Selects : analyzeFail(o)
  \/ clearAll
  \/ LoadNext
  \/ SaveNext

SpecStartup == Init /\ [][NextStartup]_vars

\* ------------------------------------------------------------ the store alone
\* a bookmark as saveSourceFaceToStorage writes it ({image, analysis,
\* timestamp}; the timestamp is never read back)
BookmarkOf(img) ==
  [image |-> img, images |-> None, analysis |-> AnalysisOf(img)]

Bookmarks == {BookmarkOf("faceA"), BookmarkOf("faceB")}

\* session snapshots as the auto-save writes them
SessionSamples ==
  { [targets |-> <<>>, sourceFaces |-> <<>>, analysis |-> NoVal],
    [targets |-> <<NewTarget(1, "photoA")>>, sourceFaces |-> <<"faceA">>,
     analysis |-> AnalysisOf("faceA")] }

\* the arguments updatePreferences is called with: Partial<UserPreferences>
Partials ==
  [last_used_source : {None} \cup {Some(b) : b \in Bookmarks},
   session_state : {None} \cup {Some(x) : x \in SessionSamples}]

\* updatePreferences(partialPrefs) is called: the call is in flight until
\* its transaction has run, storageService.ts 25-32
updatePreferences(partial) ==
  /\ Len(writes) < MaxWrites
  /\ writes' = Append(writes, partial)
  /\ UNCHANGED <<isStorageLoaded, sourceFaces, targets, analysis, isAnalyzing,
                 analysisCache, srcOps, settings, isProcessingBatch, runs,
                 loadOp, saveTimer, store, nextId, reloads, edits, hist,
                 unhandled,
                 apiKey, db, queueApp>>

\* The storage service under any caller: calls with every partial record,
\* each of which commits or fails.
NextStore ==
  \/ \E p \in Partials : updatePreferences(p)
  \/ writeCommit
  \/ writeFail

SpecStore == Init /\ [][NextStore]_vars

\* ------------------------------------------------------------ the store, staged
\* transactions started whenever their get request is placed
TxMayStartAnyTime(d, c) == TRUE

\* db.transaction(STORE_NAME, 'readwrite'): readwrite transactions over the
\* same object store run one at a time, in the order they were created, so
\* the requests of a transaction run once those created before it are over.
TxMayStart(d, c) == d.txOrder # <<>> /\ Head(d.txOrder) = c

\* txOrder without call c
RECURSIVE TxWithout(_, _)
TxWithout(order, c) ==
  IF order = <<>> THEN <<>>
  ELSE IF Head(order) = c THEN Tail(order)
  ELSE <<Head(order)>> \o TxWithout(Tail(order), c)

\* updatePreferences(partialPrefs) is called: indexedDB.open is requested,
\* storageService.ts 25-27 and 8-11
dbCall(c, partial) ==
  /\ db.calls[c].pc = "free"
  /\ \A b \in DbCalls : b < c => db.calls[b].pc # "free"
  /\ db' = [db EXCEPT !.calls[c] =
                        [pc |-> "opening", partial |-> partial,
                         current |-> EmptyPrefs,
                         seen |-> {b \in DbCalls :
                                    db.calls[b].pc \in {"opening", "get", "put"}}]]
  /\ UNCHANGED <<isStorageLoaded, sourceFaces, targets, analysis, isAnalyzing,
                 analysisCache, srcOps, settings, isProcessingBatch, runs,
                 loadOp, saveTimer, writes, store, nextId, reloads, edits, hist,
                 unhandled, apiKey, queueApp>>

\* the open request succeeded: the transaction is created and its get
\* request placed, storageService.ts 20 and 28-32
dbOpened(c) ==
  /\ db.calls[c].pc = "opening"
  /\ db' = [db EXCEPT !.calls[c].pc = "get",
                      !.txOrder = Append(@, c)]
  /\ UNCHANGED <<isStorageLoaded, sourceFaces, targets, analysis, isAnalyzing,
                 analysisCache, srcOps, settings, isProcessingBatch, runs,
                 loadOp, saveTimer, writes, store, nextId, reloads, edits, hist,
                 unhandled, apiKey, queueApp>>

\* getReq.onsuccess: the record is read, merged, and the put request placed,
\* storageService.ts 34-38
dbGet(c) ==
  /\ db.calls[c].pc = "get"
  /\ TxMayStart(db, c)
  /\ db' = [db EXCEPT !.calls[c].pc = "put",
                      !.calls[c].current = StoredOrEmpty(store)]
  /\ UNCHANGED <<isStorageLoaded, sourceFaces, targets, analysis, isAnalyzing,
                 analysisCache, srcOps, settings, isProcessingBatch, runs,
                 loadOp, saveTimer, writes, store, nextId, reloads, edits, hist,
                 unhandled, apiKey, queueApp>>

\* putReq.onsuccess: the merged record is stored, the promise resolves and
\* the transaction completes, storageService.ts 36-39
dbPut(c) ==
  /\ db.calls[c].pc = "put"
  /\ store' = Some(MergePrefs(db.calls[c].current, db.calls[c].partial))
  /\ db' = [db EXCEPT !.calls[c].pc = "done",
                      !.txOrder = TxWithout(@, c)]
  /\ UNCHANGED <<isStorageLoaded, sourceFaces, targets, analysis, isAnalyzing,
                 analysisCache, srcOps, settings, isProcessingBatch, runs,
                 loadOp, saveTimer, writes, nextId, reloads, edits, hist,
                 unhandled, apiKey, queueApp>>

\* the open request or one of the two requests failed: the promise rejects
\* and nothing is stored, storageService.ts 12, 40, 43 and 45-48
dbFail(c) ==
  /\ db.calls[c].pc \in {"opening", "get", "put"}
  /\ db.calls[c].pc = "get" => TxMayStart(db, c)
  /\ db' = [db EXCEPT !.calls[c].pc = "failed",
                      !.txOrder = TxWithout(@, c)]
  /\ UNCHANGED <<isStorageLoaded, sourceFaces, targets, analysis, isAnalyzing,
                 analysisCache, srcOps, settings, isProcessingBatch, runs,
                 loadOp, saveTimer, writes, store, nextId, reloads, edits, hist,
                 unhandled, apiKey, queueApp>>

\* The storage service with its calls in flight at the same time
NextDb ==
  \/ \E c \in DbCalls, p \in Partials : dbCall(c, p)
  \/ \E c \in DbCalls : dbOpened(c)
  \/ \E c \in DbCalls : dbGet(c)
  \/ \E c \in DbCalls : dbPut(c)
  \/ \E c \in DbCalls : dbFail(c)

SpecDb == Init /\ [][NextDb]_vars

\* ------------------------------------------------------------ queue-driven App
\* targets.filter(t => t.status === 'idle').map(t => t.id)
RECURSIVE PendingIds(_, _)
PendingIds(q, id) ==
  IF id > MaxQueued THEN <<>>
  ELSE IF id \in q.present /\ q.status[id] = "idle"
    THEN <<id>> \o PendingIds(q, id + 1)
    ELSE PendingIds(q, id + 1)

\* prev.slice(1)
Slice1(queue) == IF queue = <<>> THEN <<>> ELSE Tail(queue)

\* the ids in a queue
InQueue(queue) == {queue[k] : k \in 1..Len(queue)}

\* Whether the processQueue effect runs after a render in which targets
\* changed: processQueue is a useCallback over [processingQueue, sourceFace,
\* targets, settings, analysis] and the effect depends on processQueue, so
\* every new targets array makes a new processQueue and runs the effect.
EffectAfterTargets(q) == TRUE

\* a click on Run Batch: the idle ids replace processingQueue
startBatchProcessing ==
  /\ ~ButtonRefuses(PendingIds(queueApp, 1) = <<>>,
                    queueApp.processingQueue # <<>>)
  /\ queueApp' = [queueApp EXCEPT
                    !.processingQueue = PendingIds(queueApp, 1),
                    !.queued = @ \cup InQueue(PendingIds(queueApp, 1)),
                    !.effectPending = TRUE]
  /\ UNCHANGED <<isStorageLoaded, sourceFaces, targets, analysis, isAnalyzing,
                 analysisCache, srcOps, settings, isProcessingBatch, runs,
                 loadOp, saveTimer, writes, store, nextId, reloads, edits,
                 hist, unhandled, apiKey, db>>

\* The effect runs: with an empty queue nothing happens; a head that is not
\* in targets is sliced off; otherwise the head is marked 'processing' and
\* performFaceSwap is called for it.
processQueueEffect ==
  /\ queueApp.effectPending
  /\ LET q == queueApp
         targetId == Head(q.processingQueue)
     IN IF q.processingQueue = <<>>
          THEN queueApp' = [q EXCEPT !.effectPending = FALSE]
        ELSE IF targetId \notin q.present
          THEN queueApp' = [q EXCEPT !.processingQueue = Slice1(@),
                                     !.effectPending = TRUE]
        ELSE /\ q.dispatched[targetId] < MaxDispatch
             /\ queueApp' = [q EXCEPT
                               !.status[targetId] = "processing",
                               !.dispatched[targetId] = @ + 1,
                               !.inflight[targetId] = @ + 1,
                               !.effectPending = EffectAfterTargets(q)]
  /\ UNCHANGED <<isStorageLoaded, sourceFaces, targets, analysis, isAnalyzing,
                 analysisCache, srcOps, settings, isProcessingBatch, runs,
                 loadOp, saveTimer, writes, store, nextId, reloads, edits,
                 hist, unhandled, apiKey, db>>

\* a performFaceSwap call for id has resolved or rejected: the terminal
\* write, and `finally` slices the queue as it is then
queueSwapEnds(id, outcome) ==
  /\ queueApp.inflight[id] > 0
  /\ queueApp' = [queueApp EXCEPT
                    !.status[id] = IF id \in queueApp.present THEN outcome
                                   ELSE @,
                    !.inflight[id] = @ - 1,
                    !.processingQueue = Slice1(@),
                    !.effectPending = TRUE]
  /\ UNCHANGED <<isStorageLoaded, sourceFaces, targets, analysis, isAnalyzing,
                 analysisCache, srcOps, settings, isProcessingBatch, runs,
                 loadOp, saveTimer, writes, store, nextId, reloads, edits,
                 hist, unhandled, apiKey, db>>

\* the remove button of a target card
queueRemoveTarget(id) ==
  /\ id \in queueApp.present
  /\ queueApp' = [queueApp EXCEPT
                    !.present = @ \ {id},
                    !.effectPending = EffectAfterTargets(queueApp)]
  /\ UNCHANGED <<isStorageLoaded, sourceFaces, targets, analysis, isAnalyzing,
                 analysisCache, srcOps, settings, isProcessingBatch, runs,
                 loadOp, saveTimer, writes, store, nextId, reloads, edits,
                 hist, unhandled, apiKey, db>>

NextQueue ==
  \/ startBatchProcessing
  \/ processQueueEffect
  \/ \E id \in QueueIds : queueSwapEnds(id, "completed")
  \/ \E id \in QueueIds : queueSwapEnds(id, "failed")
  \/ \E id \in QueueIds : queueRemoveTarget(id)

SpecQueue == Ready /\ [][NextQueue]_vars

\* ------------------------------------------------------------ restore, persist
\* the target lists a stored session holds: none, or one item in any status
StoredTargets ==
  LET one == <<NewTarget(1, "photoA")>>
  IN { <<>>, one, MarkProcessing(one, 1), MarkCompleted(one, 1, "swapped"),
       MarkFailed(one, 1, "No image generated") }

\* session snapshots as the auto-save writes them
StoredSessions ==
  [targets : StoredTargets,
   sourceFaces : {<<>>, <<"faceA">>, <<"faceA", "faceB">>},
   analysis : {NoVal, AnalysisOf("faceA")}]

\* the bookmark layouts init() accepts: the single-image one an earlier
\* build wrote and the multi-image one, App.tsx 47-53
StoredBookmarks ==
  { BookmarkOf("faceA"),
    [image |-> NoVal, images |-> Some(<<"faceA", "faceB">>),
     analysis |-> AnalysisOf("faceA")] }

\* the records found under the key at startup
StoredRecords ==
  { Some(rec) : rec \in
      { r \in [last_used_source : {None} \cup {Some(b) : b \in StoredBookmarks},
               session_state : {None} \cup {Some(x) : x \in StoredSessions}] :
          r # EmptyPrefs } }

\* A page opened over a stored record and left alone: the restore, then the
\* auto-save that the restore schedules.
InitRoundTrip == \E st \in StoredRecords : Mounted(st, 0, 0, 0)

NextRoundTrip ==
  \/ loadOk
  \/ SaveNext

SpecRoundTrip == InitRoundTrip /\ [][NextRoundTrip]_vars

\* ------------------------------------------------------------ auto-save, fair
\* A page session in which every write succeeds: a timer that stays set
\* fires (setTimeout), and a transaction that was created runs (IndexedDB
\* runs readwrite transactions over one store in the order of creation).
NextSaveLive ==
  \/ \E f \in TargetFiles : handleTargetSelect(f)
  \/ \E id \in 0..MaxTargets : removeTarget(id)
  \/ clearAll
  \/ LoadNext
  \/ timerFires
  \/ writeCommit

SpecSaveLive ==
  /\ Init
  /\ [][NextSaveLive]_vars
  /\ WF_vars(timerFires)
  /\ WF_vars(writeCommit)

\* ------------------------------------------------------------ source identity
MaxAdds == 2

\* the handleSourceSelect invocations of the source identity slice
Adds == 1..MaxAdds

\* the files the user picks there: one more than the sequence can hold
FaceFiles == {"faceA", "faceB", "faceC", "faceD"}

\* A started App whose user has uploaded the source faces sf one after the
\* other, each after the one before had been read and analysed (only the
\* first one is analysed).
SourcesReady(sf) ==
  /\ isStorageLoaded = TRUE
  /\ sourceFaces = sf
  /\ targets = <<>>
  /\ analysis = IF sf = <<>> THEN Null ELSE AnalysisOf(sf[1])
  /\ isAnalyzing = FALSE
  /\ analysisCache = [f \in FaceFiles |->
                        IF sf # <<>> /\ f = sf[1] THEN AnalysisOf(f)
                        ELSE NoVal]
  /\ srcOps = [o \in Adds |-> FreeOp]
  /\ settings = DEFAULT_SWAP_SETTINGS
  /\ isProcessingBatch = FALSE
  /\ runs = [r \in Runs |-> FreeRun]
  /\ loadOp = "done"
  /\ saveTimer = AutoSave(TRUE, targets, sourceFaces, analysis)
  /\ writes = <<>>
  /\ store = None
  /\ nextId = 0
  /\ reloads = 0
  /\ edits = 0
  /\ hist = [r \in Runs |-> NoHist]
  /\ unhandled = FALSE
  /\ apiKey = "key"
  /\ db = IdleDb
  /\ queueApp = IdleQueueApp

InitSources ==
  \E sf \in {<<>>, <<"faceA", "faceB">>, <<"faceA", "faceB", "faceC">>} :
    SourcesReady(sf)

\* The source identity: uploads, the analyzer's answers, the uploader's
\* buttons, and removeSourceImage called as a function with any index.
NextSources ==
  \/ \E o \in Adds, f \in FaceFiles : handleSourceSelect(o, f)
  \/ \E o \in Adds : sourceLoaded(o)
  \/ \E o \in Adds : analyzeOk(o)
  \/ \E o \in Adds : analyzeFail(o)
  \/ \E index \in 0..2 : clickRemoveSingle(index)
  \/ \E index \in 0..2 : removeSourceImage(index)
  \/ clearAll

SpecSources == InitSources /\ [][NextSources]_vars

\* ------------------------------------------------------------ no credential
\* A started App of a build without API_KEY: the user has added faceA, the
\* analysis failed on getClient, and the image is in the source sequence.
NoKeyReady ==
  /\ isStorageLoaded = TRUE
  /\ sourceFaces = <<"faceA">>
  /\ targets = <<>>
  /\ analysis = Null
  /\ isAnalyzing = FALSE
  /\ analysisCache = [f \in SourceFiles |-> NoVal]
  /\ srcOps = [o \in Selects |->
                 IF o = 1 THEN [pc |-> "failed", file |-> "faceA",
                                seenLen |-> 0, called |-> TRUE]
                 ELSE FreeOp]
  /\ settings = DEFAULT_SWAP_SETTINGS
  /\ isProcessingBatch = FALSE
  /\ runs = [r \in Runs |-> FreeRun]
  /\ loadOp = "done"
  /\ saveTimer = AutoSave(TRUE, targets, sourceFaces, analysis)
  /\ writes = <<>>
  /\ store = None
  /\ nextId = 0
  /\ reloads = 0
  /\ edits = 0
  /\ hist = [r \in Runs |-> NoHist]
  /\ unhandled = FALSE
  /\ apiKey = NoVal
  /\ db = IdleDb
  /\ queueApp = IdleQueueApp

\* The targets and the pipeline of that App; the engine call only rejects
NextNoKey ==
  \/ \E f \in TargetFiles : handleTargetSelect(f)
  \/ \E id \in 0..MaxTargets : removeTarget(id)
  \/ \E r \in Runs : clickRunBatch(r)
  \/ \E r \in Runs, msg \in SwapErrors \cup {CredentialError} : swapFail(r, msg)
  \/ \E r \in Runs : pauseOver(r)

SpecNoKey == NoKeyReady /\ [][NextNoKey]_vars

\* ------------------------------------------------------------ batch, reopened
\* A started App whose batch run is saved by the auto-save and whose page is
\* closed and opened again over what was saved; one run in each page session.
NextResume ==
  \/ \E f \in TargetFiles : handleTargetSelect(f)
  \/ clickRunBatch(1)
  \/ \E img \in SwapResults : swapOk(1, img)
  \/ \E msg \in SwapErrors : swapFail(1, msg)
  \/ pauseOver(1)
  \/ timerFires
  \/ writeCommit
  \/ reload
  \/ loadOk

SpecResume == Ready /\ [][NextResume]_vars

\* ------------------------------------------------------------ restore, raced
\* A page opened over a stored record whose user adds targets and a source
\* image while loadPreferences is pending.  The ids of the new targets are
\* not among the stored ones (Date.now() has moved on).
InitRace == \E st \in StoredRecords : Mounted(st, 1, 0, 0)

NextRace ==
  \/ \E f \in TargetFiles : handleTargetSelect(f)
  \/ \E o \in Selects, f \in SourceFiles : handleSourceSelect(o, f)
  \/ \E o \in Selects : sourceLoaded(o)
  \/ \E o \in Selects : analyzeOk(o)
  \/ \E o \in Selects : analyzeFail(o)
  \/ LoadNext

SpecRace == InitRace /\ [][NextRace]_vars

\* A page opened over a stored record and left alone, whose load may fail
NextLoadFail ==
  \/ LoadNext
  \/ SaveNext

SpecLoadFail == InitRoundTrip /\ [][NextLoadFail]_vars

\* ------------------------------------------------------------ properties
Terminal == {"completed", "failed"}

\* run r went through its loop and returned
Settled(r) == runs[r].pc = "done" /\ ~hist[r].early

\* no other invocation was active at any time during run r
Alone(r) == ~hist[r].overlap

\* no invocation was entered after run r
Latest(r) == \A q \in Runs : q > r => runs[q].pc = "free"

\* run r has just handed an item to the engine (as an action)
Dispatches(r) ==
  /\ runs'[r].pc = "call"
  /\ runs[r].pc # "call"

\* the item run r is at in the next state
ItemAt(r) == runs'[r].ids[runs'[r].idx]

\* the ids run r called the engine for, in order
CallsOf(r) ==
  LET cs == SelectSeq(hist[r].log, LAMBDA e : e.ev = "call")
  IN [k \in 1..Len(cs) |-> cs[k].id]

\* the terminal status run r wrote for id
OutcomeOf(r, id) ==
  LET k == CHOOSE k \in 1..Len(hist[r].log) :
             hist[r].log[k].id = id /\ hist[r].log[k].ev \in Terminal
  IN hist[r].log[k].ev

\* C1: once a run that no other run overlapped has settled, and until the
\* next run is started, every target that was idle when it was called and
\* is still in the collection is completed or failed, and every target
\* added after the call is idle.
C1_SettledRun ==
  \A r \in Runs :
    (Settled(r) /\ Alone(r) /\ Latest(r)) =>
      \A i \in 1..Len(targets) :
        /\ targets[i].id \in hist[r].idle => targets[i].status \in Terminal
        /\ targets[i].id >= hist[r].firstNewId => targets[i].status = "idle"

\* a run over two items has settled; one of its items was removed, one is
\* still there, and a target added during the run is there too
C1_Witness ==
  \E r \in Runs :
    /\ Settled(r) /\ Alone(r) /\ Latest(r)
    /\ Cardinality(hist[r].idle) >= 2
    /\ \E id \in hist[r].idle : id \notin Ids(targets)
    /\ \E id \in hist[r].idle : id \in Ids(targets)
    /\ \E id \in Ids(targets) : id >= hist[r].firstNewId

\* C2: for every target, processedUrl is set iff status = 'completed' and
\* error is set iff status = 'failed'.
C2_UrlIffCompleted ==
  \A i \in 1..Len(targets) :
    /\ targets[i].processedUrl # NoVal <=> targets[i].status = "completed"
    /\ targets[i].error # NoVal <=> targets[i].status = "failed"

\* the step in which run r records a failure for id
RecordsFailure(r, id) ==
  hist'[r].log = Append(hist[r].log, [ev |-> "failed", id |-> id])

\* the results of a settled run (the state part of C3)
C3_Results ==
  \A r \in Runs :
    Settled(r) =>
      /\ CallsOf(r) = hist[r].ids
      /\ Alone(r) =>
           \A i \in 1..Len(targets) :
             targets[i].id \in hist[r].idle =>
               /\ targets[i].status = OutcomeOf(r, targets[i].id)
               /\ targets[i].status = "completed" =>
                    /\ targets[i].processedUrl \in SwapResults
                    /\ targets[i].error = NoVal
               /\ targets[i].status = "failed" =>
                    /\ targets[i].error \in SwapErrors
                    /\ targets[i].processedUrl = NoVal

\* C3: a failure is recorded on its item only (status 'failed' with the
\* message, every other target as it was) and the run goes on to its pause
\* and the next item; a settled run has called the engine for every item of
\* its worklist, in order; and after a run that no other run overlapped,
\* every worklist item still in the collection has the status the run wrote
\* for it, completed with a processedUrl and no error, or failed with an
\* error and no processedUrl.
C3_FailureIsolated ==
  /\ []C3_Results
  /\ [][\A r \in Runs : \A id \in 0..MaxTargets :
         RecordsFailure(r, id) =>
           /\ Len(targets') = Len(targets)
           /\ \A i \in 1..Len(targets) :
                IF targets[i].id = id
                  THEN /\ targets'[i].status = "failed"
                       /\ targets'[i].error \in SwapErrors
                       /\ targets'[i].id = id
                  ELSE targets'[i] = targets[i]
           /\ runs'[r].pc = "pause"
           /\ runs'[r].idx = runs[r].idx]_vars

\* three idle targets, the engine failed on the 2nd only
C3_Witness ==
  \E r \in Runs :
    /\ Settled(r) /\ Alone(r)
    /\ hist[r].ids = <<1, 2, 3>>
    /\ Len(targets) = 3
    /\ targets[1].status = "completed" /\ targets[1].processedUrl # NoVal
    /\ targets[2].status = "failed" /\ targets[2].error # NoVal
    /\ targets[3].status = "completed" /\ targets[3].processedUrl # NoVal

\* C4: at most one performFaceSwap call is in flight.
C4_OneInFlight == Cardinality({r \in Runs : runs[r].pc = "call"}) <= 1

\* C5: within one invocation, an item of the worklist is marked
\* 'processing' only after the item before it in the worklist has been
\* written 'completed' or 'failed'.
C5_InOrder ==
  \A r \in Runs :
    \A k \in 1..Len(hist[r].log) :
      hist[r].log[k].ev = "processing" =>
        LET j == CHOOSE j \in 1..Len(hist[r].ids) :
                   hist[r].ids[j] = hist[r].log[k].id
        IN j > 1 =>
             \E m \in 1..(k - 1) :
               /\ hist[r].log[m].id = hist[r].ids[j - 1]
               /\ hist[r].log[m].ev \in Terminal

\* a run is at the third item of its worklist, the second of which the
\* user removed
C5_Witness ==
  \E r \in Runs :
    /\ runs[r].pc = "call" /\ runs[r].idx = 3
    /\ runs[r].ids[2] \notin Ids(targets)

\* C6: a run hands an item to the engine only if the item is in the live
\* collection when its turn arrives (a removed item is skipped).
C6_RemovedIsSkipped ==
  [][\A r \in Runs : Dispatches(r) => ItemAt(r) \in Ids(targets)]_vars

\* C7 as stated: the settings passed to the engine are the ones in effect
\* when the item is dispatched.
C7_SettingsAtDispatch ==
  [][\A r \in Runs :
       Dispatches(r) => runs'[r].call[1].settings = settings]_vars

\* C7 amended: the settings passed to the engine for every item of a run are
\* the ones in effect when the run was started.
C7_SettingsAtStart ==
  \A r \in Runs :
    runs[r].pc = "call" => runs[r].call[1].settings = hist[r].settings

\* a call for the second item of a run is in flight with settings that are
\* not the current ones
C7_Witness ==
  \E r \in Runs :
    /\ runs[r].pc = "call" /\ runs[r].idx >= 2
    /\ runs[r].call[1].settings # settings

\* C8: runBatchProcessor entered while sourceFaces is empty changes no
\* target, calls the engine for nothing and leaves isProcessingBatch as it
\* was.
C8_NoSourceNoOp ==
  [][\A r \in Runs :
       (IsNextRun(r) /\ runs'[r].pc # "free" /\ Len(sourceFaces) = 0) =>
         /\ targets' = targets
         /\ isProcessingBatch' = isProcessingBatch
         /\ runs'[r].pc = "done"
         /\ hist'[r].log = <<>>]_vars

\* runBatchProcessor returned at once although idle targets were waiting
C8_Witness ==
  \E r \in Runs :
    /\ runs[r].pc = "done" /\ hist[r].early
    /\ Len(sourceFaces) = 0
    /\ Len(IdleIds(targets)) > 0
    /\ ~isProcessingBatch

\* C9: once a target is 'completed' or 'failed' its status does not change
\* again.
C9_TerminalStays ==
  [][\A i \in 1..Len(targets) : \A j \in 1..Len(targets') :
       (targets[i].status \in Terminal /\ targets'[j].id = targets[i].id) =>
         targets'[j].status = targets[i].status]_vars

\* C10: while the startup restore has not completed, isStorageLoaded is
\* false, no auto-save timer is pending and no updatePreferences call is in
\* flight; a write is issued, and the store changes, only after it.
C10_NoWriteBeforeRestore ==
  /\ [](loadOp = "pending" =>
          /\ ~isStorageLoaded
          /\ saveTimer = None
          /\ writes = <<>>)
  /\ [][(writes' # writes \/ store' # store) =>
          (loadOp = "done" /\ isStorageLoaded)]_vars

\* the user has uploaded a source and a target while the load is pending
C10_Witness ==
  /\ loadOp = "pending"
  /\ targets # <<>>
  /\ sourceFaces # <<>>
  /\ store # None

\* ------------------------------------------------------------ C11
\* the oldest call in flight ends in this step
WriteEnds == writes # <<>> /\ writes' = Tail(writes)

\* rec is the stored record cur with the keys of partial replaced
MergedInto(cur, partial, rec) ==
  \A k \in {"last_used_source", "session_state"} :
    rec[k] = IF partial[k] # None THEN partial[k] ELSE cur[k]

\* C11: a call of updatePreferences that changes the stored record leaves
\* a record in which every key present in the partial has the partial's value
\* and every other key has the value it had; so a record holding bookmark X
\* holds X and Y after update({session_state: Y}).
C11_MergeKeepsOtherKeys ==
  [][WriteEnds /\ store' # store =>
       /\ store' # None
       /\ MergedInto(StoredOrEmpty(store), Head(writes), store'[1])
       /\ \A b \in Bookmarks, y \in SessionSamples :
            (/\ store # None
             /\ store[1].last_used_source = Some(b)
             /\ Head(writes) = [last_used_source |-> None,
                                session_state |-> Some(y)])
            => store'[1] = [last_used_source |-> Some(b),
                            session_state |-> Some(y)]]_vars

\* a bookmark that only an update can have stored, and a session snapshot,
\* are both in the record and no call is in flight
C11_Witness ==
  /\ writes = <<>>
  /\ store = Some([last_used_source |-> Some(BookmarkOf("faceB")),
                   session_state |->
                     Some([targets |-> <<NewTarget(1, "photoA")>>,
                           sourceFaces |-> <<"faceA">>,
                           analysis |-> AnalysisOf("faceA")])])

\* ------------------------------------------------------------ C12
\* the record's bookmark, if any, is one that the application wrote
\* (saveSourceFaceToStorage: the single-image layout)
WrittenByApp(rec) ==
  rec.last_used_source = None \/ rec.last_used_source[1].images = None

Snapshot ==
  [targets |-> targets, sourceFaces |-> sourceFaces,
   analysis |-> OrElse(analysis, NoVal)]

\* C13: at most one auto-save timer is pending, and it carries the state as
\* of the latest mutation; a step that replaces a pending timer issues no
\* write (the replaced snapshot is never written); the step in which the
\* timer fires issues exactly the write of the current state and leaves no
\* timer.
C13_TrailingDebounce ==
  /\ [](Len(saveTimer) <= 1 /\ (saveTimer # None => saveTimer = Some(Snapshot)))
  /\ [][saveTimer # None /\ saveTimer' # None /\ saveTimer' # saveTimer
          => writes' = writes]_vars
  /\ [][Len(writes') > Len(writes)
          => /\ saveTimer # None
             /\ saveTimer' = None
             /\ writes' = Append(writes, [last_used_source |-> None,
                                          session_state |-> Some(Snapshot)])]_vars

\* nothing was stored yet, and the write in flight carries two targets: the
\* timers set by the restore and by the first upload were replaced
C13_Witness ==
  /\ store = None
  /\ saveTimer = None
  /\ Len(writes) = 1
  /\ writes[1].session_state # None
  /\ Len(writes[1].session_state[1].targets) = 2
  /\ Len(targets) = 2

\* ------------------------------------------------------------ C14
\* C14: once the restore has completed and the state has stopped changing,
\* the stored session_state is, from some time on, the in-memory targets,
\* sourceFaces and analysis, whatever writes were in flight together.
C14_EventuallyPersisted ==
  <>[](loadOp = "done" =>
         store # None /\ store[1].session_state = Some(Snapshot))

\* two auto-save writes are in flight, the older one with another snapshot
\* than the newer one, which carries the current state
C14_Witness ==
  /\ Len(writes) = 2
  /\ writes[1] # writes[2]
  /\ writes[2].session_state = Some(Snapshot)
  /\ saveTimer = None

\* ------------------------------------------------------------ C15
\* the restore is applied in this step
RestoreApplied == loadOp = "pending" /\ loadOp' = "done" /\ store # None

\* C15: the restore is applied once.  Over a record with a session_state
\* the in-memory targets, sourceFaces and analysis become the session's
\* (whatever last_used_source holds); over a record without one, sourceFaces
\* becomes the bookmark's images, or the one-element sequence of its image,
\* analysis the bookmark's analysis, and targets are left alone.
C15_RestorePrefersSession ==
  /\ [][RestoreApplied =>
          LET rec == store[1]
          IN IF rec.session_state # None
               THEN LET ss == rec.session_state[1]
                    IN /\ targets' = ss.targets
                       /\ sourceFaces' = ss.sourceFaces
                       /\ analysis' = IF ss.analysis = NoVal THEN Null
                                      ELSE ss.analysis
               ELSE LET b == rec.last_used_source[1]
                    IN /\ targets' = targets
                       /\ sourceFaces' = IF b.images # None THEN b.images[1]
                                         ELSE <<b.image>>
                       /\ analysis' = b.analysis]_vars
  /\ [][loadOp = "done" =>
          loadOp' = "done" /\ UNCHANGED <<targets, sourceFaces, analysis>>]_vars

\* restored over a record that holds a bookmark with images and a session
\* without any: the session's empty source sequence is in memory
C15_Witness ==
  /\ loadOp = "done"
  /\ store # None
  /\ store[1].last_used_source # None
  /\ store[1].session_state # None
  /\ store[1].session_state[1].sourceFaces = <<>>
  /\ store[1].session_state[1].analysis = NoVal
  /\ sourceFaces = <<>>
  /\ analysis = Null
  /\ targets = store[1].session_state[1].targets
  /\ Len(targets) = 1

\* ------------------------------------------------------------ C16
\* C16: a failed load or write is swallowed: no rejection reaches the page
\* unhandled, and the step in which a write ends, or in which the load ends
\* without a record, leaves targets, sourceFaces, analysis and settings
\* unchanged.
C16_FailureContained ==
  /\ [](~unhandled)
  /\ [][WriteEnds \/ (loadOp = "pending" /\ loadOp' = "done" /\ store = None)
          => UNCHANGED <<targets, sourceFaces, analysis, settings>>]_vars

\* ------------------------------------------------------------ C17
\* a swap succeeded in this step: an item became 'completed'
SwapSucceeds ==
  /\ Len(targets') = Len(targets)
  /\ \E i \in 1..Len(targets) :
       targets[i].status # "completed" /\ targets'[i].status = "completed"

\* bookmarks of the source identity sf with analysis an, in either layout
BookmarksFor(sf, an) ==
  { [image |-> sf[1], images |-> None, analysis |-> an],
    [image |-> NoVal, images |-> Some(sf), analysis |-> an] }

\* C17: the step in which a swap succeeds issues an updatePreferences call
\* whose partial holds last_used_source, the current source identity with
\* its analysis, and no other key.
C17_BookmarkAfterSwap ==
  [][SwapSucceeds =>
       \E b \in BookmarksFor(sourceFaces, analysis) :
         writes' = Append(writes, [last_used_source |-> Some(b),
                                   session_state |-> None])]_vars

\* ------------------------------------------------------------ C18
NoDuplicates(sf) == \A i, j \in 1..Len(sf) : i # j => sf[i] # sf[j]

\* the FileReader of invocation o delivers its image in this step
Delivers(o) == srcOps[o].pc = "reading" /\ srcOps'[o].pc # "reading"

\* C18: the source sequence never holds more than 3 images nor the same
\* image twice; the step in which an upload is delivered appends the image
\* when it is not in the sequence and the sequence holds fewer than 3, and
\* leaves the sequence as it is otherwise, without an error.
C18_AddBounded ==
  /\ [](Len(sourceFaces) <= 3 /\ NoDuplicates(sourceFaces))
  /\ [][\A o \in DOMAIN srcOps :
          Delivers(o) =>
            LET img == srcOps[o].file
                held == \E k \in 1..Len(sourceFaces) : sourceFaces[k] = img
            IN /\ sourceFaces' = IF held \/ Len(sourceFaces) >= 3
                                   THEN sourceFaces
                                   ELSE sourceFaces \o <<img>>
               /\ unhandled' = unhandled]_vars

\* a fourth image was uploaded to a full sequence, which is as it was
C18_Witness ==
  /\ sourceFaces = <<"faceA", "faceB", "faceC">>
  /\ srcOps[1] = [pc |-> "done", file |-> "faceD", seenLen |-> 3,
                  called |-> FALSE]
  /\ srcOps[2].pc = "free"

\* ------------------------------------------------------------ C19
\* sf without the image at index (counted from 0)
Without(sf, index) ==
  SubSeq(sf, 1, index) \o SubSeq(sf, index + 2, Len(sf))

\* C19: for every index of the sequence, removeSourceImage's splice yields
\* the sequence without exactly the image at that index, the others in
\* their order; the step that removes the image at index 0 leaves analysis
\* absent, and the step that removes an image at a later index leaves
\* analysis as it was.
C19_RemoveAtIndex ==
  /\ [](\A index \in 0..(Len(sourceFaces) - 1) :
          SpliceOut(sourceFaces, index) = Without(sourceFaces, index))
  /\ [][\A index \in 0..(Len(sourceFaces) - 1) :
          sourceFaces' = Without(sourceFaces, index)
            => analysis' = IF index = 0 THEN Null ELSE analysis]_vars

\* the first of three images was removed, no upload was made: the other
\* two are left in their order and analysis is absent
C19_Witness ==
  /\ sourceFaces = <<"faceB", "faceC">>
  /\ analysis = Null
  /\ \A o \in DOMAIN srcOps : srcOps[o].pc = "free"

\* ------------------------------------------------------------ C20
\* C20: whenever analysis is present the source sequence is not empty and
\* analysis is the one of the image at position 0; the analyzer is called
\* only by an upload that is delivered to an empty sequence.
C20_AnalysisOfPrimary ==
  /\ [](analysis # Null =>
          Len(sourceFaces) > 0 /\ analysis = AnalysisOf(sourceFaces[1]))
  /\ [][\A o \in DOMAIN srcOps :
          srcOps[o].pc = "reading" /\ srcOps'[o].pc = "analyzing"
            => Len(sourceFaces) = 0]_vars

\* ------------------------------------------------------------ C21
\* the invocations that have called analyzeFace for the content f
InvokedFor(f) ==
  {o \in DOMAIN srcOps : srcOps[o].called /\ srcOps[o].file = f}

\* C21: the analyzer is called at most once for each image content, and an
\* upload delivered as primary image whose content is in analysisCache
\* takes the analysis from there and calls nothing.
C21_AnalyzedOncePerHash ==
  /\ [](\A f \in FaceFiles : Cardinality(InvokedFor(f)) <= 1)
  /\ [][\A o \in DOMAIN srcOps :
          (/\ Delivers(o)
           /\ srcOps[o].seenLen = 0
           /\ analysisCache[srcOps[o].file] # NoVal)
          => /\ ~srcOps'[o].called
             /\ analysis' = analysisCache[srcOps[o].file]]_vars

\* ------------------------------------------------------------ C22
\* the analyzer call of invocation o fails in this step
AnalysisFails(o) == srcOps[o].pc = "analyzing" /\ srcOps'[o].pc = "failed"

\* invocation o is the only upload made so far
OnlyUpload(o) == \A p \in DOMAIN srcOps : p # o => srcOps[p].pc = "free"

\* C22: the step in which the analyzer fails leaves analysis, the source
\* sequence and analysisCache as they are and the analyzing indicator false;
\* for the only upload made, analysis is absent and nothing is in
\* analysisCache for its content while and after its analyzer call, and its
\* image, when the user has not taken it out, is the source runBatchProcessor
\* accepts.
C22_AnalyzerFailure ==
  /\ [][\A o \in DOMAIN srcOps :
          AnalysisFails(o) =>
            /\ analysis' = analysis
            /\ sourceFaces' = sourceFaces
            /\ analysisCache' = analysisCache
            /\ isAnalyzing' = FALSE]_vars
  /\ [](\A o \in DOMAIN srcOps :
          (srcOps[o].pc \in {"analyzing", "failed"} /\ OnlyUpload(o)) =>
            /\ analysis = Null
            /\ analysisCache[srcOps[o].file] = NoVal
            /\ (sourceFaces # <<>> =>
                  sourceFaces = <<srcOps[o].file>> /\ ~NoSource(sourceFaces)))

\* the analysis of the only upload has failed: its image is the source
\* sequence, analysis is absent and the indicator is off
C22_Witness ==
  /\ srcOps[1].pc = "failed"
  /\ OnlyUpload(1)
  /\ sourceFaces = <<srcOps[1].file>>
  /\ analysis = Null
  /\ isAnalyzing = FALSE
  /\ analysisCache[srcOps[1].file] = NoVal

\* ------------------------------------------------------------ C23
\* run r logged `ev` for id this many times
TimesLogged(r, ev, id) ==
  Len(SelectSeq(hist[r].log, LAMBDA e : e.ev = ev /\ e.id = id))

\* C23: without the engine credential every engine call rejects with the
\* credential error before a request is issued and no call resolves; no run
\* calls the engine twice for an item; a run that went through its loop has
\* called the engine once for every item of its worklist and recorded one
\* failure for each, and (when no other run overlapped it) each of these
\* items still in the collection is 'failed' with the credential error
\* message.
C23_NoCredential ==
  /\ \A a \in EngineAnswers(apiKey) :
       ~a.ok /\ ~a.requested /\ a.value = CredentialError
  /\ \A r \in Runs, img \in SwapResults : ~ENABLED swapOk(r, img)
  /\ \A r \in Runs : \A id \in 0..MaxTargets :
       /\ TimesLogged(r, "call", id) <= 1
       /\ TimesLogged(r, "completed", id) = 0
       /\ TimesLogged(r, "failed", id) <= TimesLogged(r, "call", id)
  /\ \A r \in Runs :
       Settled(r) =>
         /\ CallsOf(r) = hist[r].ids
         /\ \A k \in 1..Len(hist[r].ids) :
              TimesLogged(r, "failed", hist[r].ids[k]) = 1
         /\ Alone(r) =>
              \A i \in 1..Len(targets) :
                targets[i].id \in hist[r].idle =>
                  /\ targets[i].status = "failed"
                  /\ targets[i].error = CredentialError
                  /\ targets[i].processedUrl = NoVal

\* a run over two items has settled without a credential, both items are
\* there and failed
C23_Witness ==
  \E r \in Runs :
    /\ apiKey = NoVal
    /\ Settled(r) /\ Alone(r)
    /\ Len(hist[r].ids) >= 2
    /\ \A k \in 1..Len(hist[r].ids) :
         \E i \in 1..Len(targets) :
           /\ targets[i].id = hist[r].ids[k]
           /\ targets[i].status = "failed"
           /\ targets[i].error = CredentialError

\* ------------------------------------------------------------ C24
\* a step of the pipeline: some invocation moved
PipelineStep == runs' # runs

\* the invocations that moved in this step
Moved == {r \in Runs : runs'[r] # runs[r]}

\* C24: a step of the pipeline keeps the length of the target collection and
\* every target's id and originalUrl in place, and changes at most status,
\* processedUrl and error, and only of targets in the worklist of the
\* invocation that moved; so it adds none, reorders none and brings back
\* none that was removed.
C24_PipelineFrame ==
  [][PipelineStep =>
       /\ Len(targets') = Len(targets)
       /\ \A i \in 1..Len(targets) :
            /\ targets'[i].id = targets[i].id
            /\ targets'[i].originalUrl = targets[i].originalUrl
            /\ targets'[i] # targets[i] =>
                 \E r \in Moved : targets[i].id \in hist'[r].idle]_vars

\* a run over two items went through its loop: one of its items was removed
\* while it ran and is not back, and a target added while it ran is idle
C24_Witness ==
  \E r \in Runs :
    /\ Settled(r)
    /\ Len(hist[r].ids) = 2
    /\ Len(CallsOf(r)) = 2
    /\ Cardinality({id \in hist[r].idle : id \in Ids(targets)}) = 1
    /\ \E i \in 1..Len(targets) :
         /\ targets[i].id >= hist[r].firstNewId
         /\ targets[i].status = "idle"

\* ------------------------------------------------------------ C25
\* the status of the target with this id
StatusOf(ts, id) ==
  LET i == CHOOSE i \in 1..Len(ts) : ts[i].id = id
  IN ts[i].status

\* C25: in the step in which a run hands an item to the engine the item, if
\* it is in the collection, is 'processing' there (the write comes before
\* the call in that step); in every run's record the call for an item comes
\* right after the 'processing' write for it, and a 'completed' or 'failed'
\* write after both; and no target goes from 'idle' to 'completed' or
\* 'failed' in one step.
C25_ProcessingFirst ==
  /\ [][\A r \in Runs :
          (Dispatches(r) /\ ItemAt(r) \in Ids(targets')) =>
            StatusOf(targets', ItemAt(r)) = "processing"]_vars
  /\ [](\A r \in Runs : \A k \in 1..Len(hist[r].log) :
          LET e == hist[r].log[k]
          IN /\ e.ev = "call" =>
                  /\ k > 1
                  /\ hist[r].log[k - 1] = [ev |-> "processing", id |-> e.id]
             /\ e.ev \in Terminal =>
                  /\ k > 2
                  /\ hist[r].log[k - 1] = [ev |-> "call", id |-> e.id]
                  /\ hist[r].log[k - 2] = [ev |-> "processing", id |-> e.id])
  /\ [][\A id \in Ids(targets) \cap Ids(targets') :
          StatusOf(targets, id) = "idle" =>
            StatusOf(targets', id) \notin Terminal]_vars

\* a run has completed one item and failed another, and is through
C25_Witness ==
  \E r \in Runs :
    /\ Settled(r)
    /\ \E i, j \in 1..Len(targets) :
         /\ targets[i].status = "completed"
         /\ targets[j].status = "failed"
         /\ {targets[i].id, targets[j].id} \subseteq hist[r].idle
    /\ \E k \in 1..Len(hist[r].log) : hist[r].log[k].ev = "completed"
    /\ \E k \in 1..Len(hist[r].log) : hist[r].log[k].ev = "failed"

\* ------------------------------------------------------------ C26
\* run r is inside the engine call for the target with this id
Handling(r, id) ==
  /\ runs[r].pc = "call"
  /\ runs[r].ids[runs[r].idx] = id

\* C26: every target whose status is 'processing' is the item that an active
\* invocation is handling.
C26_ProcessingIsHandled ==
  \A i \in 1..Len(targets) :
    targets[i].status = "processing" =>
      \E r \in Runs : Handling(r, targets[i].id)

\* ------------------------------------------------------------ C27
\* the step in which init() has finished, with or without a record
RestoreEnds == loadOp = "pending" /\ loadOp' = "done"

\* C27: every target and every source image that is in the model when the
\* startup restore finishes is still in it afterwards.
C27_RestoreKeepsAdded ==
  [][RestoreEnds =>
       /\ \A i \in 1..Len(targets) :
            \E j \in 1..Len(targets') : targets'[j] = targets[i]
       /\ \A i \in 1..Len(sourceFaces) :
            \E j \in 1..Len(sourceFaces') : sourceFaces'[j] = sourceFaces[i]]_vars

\* ------------------------------------------------------------ C28
\* the snapshot of the in-memory state of a freshly mounted App
DefaultSession == AutoSave(TRUE, <<>>, <<>>, Null)

\* C28: on a page the user changes nothing on, whether the startup load
\* succeeds or fails, a stored session_state that is not the default empty
\* one is never replaced by the default empty one.
C28_FailedLoadKeepsSession ==
  [][(/\ store # None
      /\ store[1].session_state # None
      /\ store[1].session_state # DefaultSession)
       => (store' # None /\ store'[1].session_state # DefaultSession)]_vars

\* ------------------------------------------------------------ C29
\* the top-level keys a partial record writes
KeysOf(partial) ==
  {k \in {"last_used_source", "session_state"} : partial[k] # None}

\* calls b and c were in flight at the same time
InFlightTogether(b, c) == b \in db.calls[c].seen \/ c \in db.calls[b].seen

\* calls b and c have both resolved
BothStored(b, c) ==
  /\ b # c
  /\ db.calls[b].pc = "done"
  /\ db.calls[c].pc = "done"

\* no third call has stored under a key of b or of c
NoneElseWrote(b, c) ==
  \A e \in DbCalls \ {b, c} :
    db.calls[e].pc = "done" =>
      KeysOf(db.calls[e].partial)
        \cap (KeysOf(db.calls[b].partial) \cup KeysOf(db.calls[c].partial)) = {}

\* C29: when two updatePreferences calls writing different top-level keys
\* have both stored (and no third call wrote these keys), in flight at the
\* same time or not, the record holds under each key the value its call
\* wrote, whatever the order of their opens, reads and writes; and the step
\* in which a call stores leaves every key it does not write as the record
\* held it just before.
C29_NoLostUpdate ==
  /\ [](\A b \in DbCalls, c \in DbCalls :
          (/\ BothStored(b, c)
           /\ NoneElseWrote(b, c)
           /\ KeysOf(db.calls[b].partial) \cap KeysOf(db.calls[c].partial) = {})
            => /\ store # None
               /\ \A k \in KeysOf(db.calls[b].partial) :
                    store[1][k] = db.calls[b].partial[k]
               /\ \A k \in KeysOf(db.calls[c].partial) :
                    store[1][k] = db.calls[c].partial[k])
  /\ [][\A c \in DbCalls :
          (db.calls[c].pc = "put" /\ db'.calls[c].pc = "done") =>
            \A k \in {"last_used_source", "session_state"} :
              store'[1][k] = IF k \in KeysOf(db.calls[c].partial)
                               THEN db.calls[c].partial[k]
                               ELSE StoredOrEmpty(store)[k]]_vars

\* a session_state write and a bookmark write were in flight together and
\* both have stored
C29_Witness ==
  /\ BothStored(1, 2)
  /\ InFlightTogether(1, 2)
  /\ KeysOf(db.calls[1].partial) = {"session_state"}
  /\ KeysOf(db.calls[2].partial) = {"last_used_source"}
  /\ store # None
  /\ store[1].session_state = db.calls[1].partial.session_state
  /\ store[1].last_used_source = db.calls[2].partial.last_used_source

\* ------------------------------------------------------------ C30
\* C30: performFaceSwap is called at most once for an id, and an id that was
\* placed in processingQueue, is still in targets and is no longer in the
\* queue has been dispatched.
C30_DispatchedOnce ==
  /\ \A id \in QueueIds : queueApp.dispatched[id] <= 1
  /\ \A id \in queueApp.queued \cap queueApp.present :
       id \notin InQueue(queueApp.processingQueue) =>
         queueApp.dispatched[id] >= 1

====
